---- MODULE Spec2Model ----
(***************************************************************************)
(* Patent Expiration API: the request quota trackers, the patent cache     *)
(* store and the resolution path of GET /api/v1/status.                    *)
(*                                                                         *)
(* Time is a number of days; datetime.now() is the variable now.           *)
(* Strings the code inspects character by character (patent numbers) are   *)
(* sequences of one-character strings.  Python's None is NoDate for        *)
(* datetimes and the string "None" elsewhere.                               *)
(*                                                                         *)
(* The FastAPI application runs its coroutines on one event loop: code     *)
(* between two awaits runs without interleaving.  Both check_rate_limit    *)
(* methods and both CacheService methods contain no await, hence each is   *)
(* one action.  The only awaits of the resolution path are the provider    *)
(* calls of the adapters.  One adapter instance shared by concurrent       *)
(* fetches has its own clock, minute, counted in minutes.                  *)
(***************************************************************************)
EXTENDS Integers, Sequences, FiniteSets, TLC

VARIABLES now, calls,
          limiter, usage, requests, rlLast, rlWin, advLast, advWin,
          cache, lastGet, tally,
          req, lastOk,
          minute, epo, task, lastAcq, lastRet,
          lastHit, lastList, lastPut, purges,
          norm, ident

qvars == <<limiter, usage, requests, rlLast, rlWin, advLast, advWin>>
cvars == <<cache, lastGet, tally>>
pvars == <<req, lastOk>>
avars == <<minute, epo, task, lastAcq, lastRet>>
hvars == <<lastHit, lastList, lastPut, purges>>
fvars == <<norm, ident>>
vars == <<now, calls, qvars, cvars, pvars, avars, hvars, fvars>>

(***************************************************************************)
(* Bounds of the model.                                                    *)
(***************************************************************************)
\* the clock advances TickDays days at a time, up to MaxTime
TickDays == 30
MaxTime == 60
\* direct calls of the two check_rate_limit methods
MaxCalls == 4
\* concurrent requests to GET /api/v1/status
NumReq == 2
\* direct calls of save_patent_to_cache beside the requests
MaxPuts == 1
\* direct calls of save_patent_to_cache beside direct resolutions
MaxStores == 2
\* the largest limit get_stale_patents is called with
MaxLimit == 2
\* calls of clear_cache
MaxPurges == 1
\* the longest input of the normalisation
MaxLen == 3
\* the Settings limits are read from the environment (config.py:45-47,
\* defaults 20 / 1000 / 10000); the model takes small values
rate_limit_free == 1
rate_limit_basic == 2
rate_limit_pro == 3
\* concurrent get_patent_status calls on the shared adapter instances
NumTasks == 3
\* the adapters' clock advances TickMinutes minutes at a time, up to MaxMinute
TickMinutes == 5
MaxMinute == 20

(***************************************************************************)
(* Program constants.                                                      *)
(***************************************************************************)
NoDate == -1
RESET_DAYS == 30
cache_ttl_days == 30
ENTERPRISE_LIMIT == 999999
\* EPOService: self.token = None; the token is cached for 15 minutes
NoToken == 0
TOKEN_CACHE_MINUTES == 15
\* Settings.max_retries
max_retries == 3

None == "None"

Min(a, b) == IF a <= b THEN a ELSE b

(***************************************************************************)
(* str.lower() on the tier labels the model uses.                          *)
(***************************************************************************)
TierLabels == {"free", "basic", "Pro", "enterprise", "gold"}

\* values of the X-RapidAPI-Subscription header (None: header absent)
TierHeaders == {None, "basic", "Pro", "gold"}

lower(t) == IF t = "Pro" THEN "pro" ELSE t

(***************************************************************************)
(* Caller identities.  sha256 is modelled as an injective tagging.         *)
(***************************************************************************)
ApiKeys == {"k1"}
Hosts == {"10.0.0.1"}

hash_api_key(api_key) == <<"sha256", api_key>>

\* keys of RateLimiter.usage: hashes of a header value or of "anonymous"
RLKeys == {hash_api_key(k) : k \in ApiKeys \cup {"anonymous"}}

\* keys of APIKeyRateLimiter.requests: a hash, the client host, or "unknown"
AdvKeys == {hash_api_key(k) : k \in ApiKeys} \cup {<<"host", h>> : h \in Hosts \cup {"unknown"}}

(***************************************************************************)
(* RateLimiter (app/utils/rate_limiter.py)                                 *)
(***************************************************************************)
get_tier_limit_unknown_basic(tier) ==
    LET t == lower(tier) IN
    CASE t = "free" -> rate_limit_free
      [] t = "basic" -> rate_limit_basic
      [] t = "pro" -> rate_limit_pro
      [] t = "enterprise" -> ENTERPRISE_LIMIT
      [] OTHER -> rate_limit_basic

get_tier_limit(tier) ==
    LET t == lower(tier) IN
    CASE t = "free" -> rate_limit_free
      [] t = "basic" -> rate_limit_basic
      [] t = "pro" -> rate_limit_pro
      [] t = "enterprise" -> ENTERPRISE_LIMIT
      [] OTHER -> rate_limit_free

should_reset_late(reset_date) == reset_date = NoDate \/ now > reset_date

should_reset(reset_date) == reset_date = NoDate \/ now >= reset_date

\* the usage entry after the reset branch of check_rate_limit
rl_after_reset(u) ==
    IF should_reset(u.reset_date)
    THEN [count |-> 0, reset_date |-> now + RESET_DAYS]
    ELSE u

rl_over_limit_off_by_one(count, limit) == count > limit

rl_over_limit(count, limit) == count >= limit

rl_rejected_counted(u1, limit) ==
    [entry |-> [u1 EXCEPT !.count = u1.count + 1], allowed |-> FALSE, remaining |-> 0,
     limit |-> limit]

\* "if usage["count"] >= limit: return False, 0, limit"
rl_rejected(u1, limit) == [entry |-> u1, allowed |-> FALSE, remaining |-> 0, limit |-> limit]

rl_admitted_uncounted(u1, limit) ==
    [entry |-> u1, allowed |-> TRUE, remaining |-> limit - (u1.count + 1), limit |-> limit]

\* "usage["count"] += 1; remaining = limit - usage["count"]; return True, ..."
rl_admitted(u1, limit) ==
    [entry |-> [u1 EXCEPT !.count = u1.count + 1],
     allowed |-> TRUE, remaining |-> limit - (u1.count + 1), limit |-> limit]

\* check_rate_limit: the entry it leaves and the tuple it returns
rl_check(u, tier) ==
    LET limit == get_tier_limit(tier)
        u1 == rl_after_reset(u)
    IN IF rl_over_limit(u1.count, limit)
       THEN rl_rejected(u1, limit)
       ELSE rl_admitted(u1, limit)

\* bookkeeping of one window: calls made, calls admitted, the limit applied to
\* the last call and whether every call of the window had that limit
NewWin == [calls |-> 0, admitted |-> 0, limit |-> 0, uniform |-> TRUE]

WinAfter(w, rolled, allowed, limit) ==
    LET w0 == IF rolled THEN NewWin ELSE w
    IN [calls |-> w0.calls + 1,
        admitted |-> w0.admitted + (IF allowed THEN 1 ELSE 0),
        limit |-> limit,
        uniform |-> w0.uniform /\ (w0.calls = 0 \/ w0.limit = limit)]

NoCall == [valid |-> FALSE, key |-> <<"none", "none">>, tier |-> "none", allowed |-> FALSE,
           remaining |-> 0, limit |-> 0, reset |-> NoDate, count_before |-> 0,
           reset_before |-> NoDate, rolled |-> FALSE, at |-> 0]

entry_written_to_all(table, key_hash, entry) == [k \in DOMAIN table |-> entry]

\* usage = self.usage[key_hash] is the one dict the call reads and writes
entry_written(table, key_hash, entry) == [table EXCEPT ![key_hash] = entry]

\* RateLimiter.check_rate_limit(api_key, tier)
RateLimiter_check_rate_limit(api_key, tier) ==
    LET key_hash == hash_api_key(api_key)
        u == usage[key_hash]
        r == rl_check(u, tier)
        rolled == should_reset(u.reset_date)
    IN /\ usage' = entry_written(usage, key_hash, r.entry)
       /\ rlLast' = [valid |-> TRUE, key |-> key_hash, tier |-> tier, allowed |-> r.allowed,
                     remaining |-> r.remaining, limit |-> r.limit,
                     reset |-> NoDate,
                     count_before |-> u.count, reset_before |-> u.reset_date,
                     rolled |-> rolled, at |-> now]
       /\ rlWin' = [rlWin EXCEPT ![key_hash] = WinAfter(@, rolled, r.allowed, r.limit)]

RLCall ==
    /\ limiter = "RateLimiter"
    /\ calls < MaxCalls
    /\ \E api_key \in ApiKeys \cup {"anonymous"}, tier \in TierLabels :
          RateLimiter_check_rate_limit(api_key, tier)
    /\ calls' = calls + 1
    /\ UNCHANGED <<now, limiter, requests, advLast, advWin, cvars, pvars, avars, hvars, fvars>>

(***************************************************************************)
(* APIKeyRateLimiter (app/middleware/advanced_rate_limiter.py)             *)
(***************************************************************************)
\* self.tier_limits.get(tier, self.tier_limits["free"])
get_limit(tier) ==
    CASE tier = "free" -> rate_limit_free
      [] tier = "basic" -> rate_limit_basic
      [] tier = "pro" -> rate_limit_pro
      [] OTHER -> rate_limit_free

\* request.headers.get("X-RapidAPI-Subscription", "free").lower()
get_user_tier(tier_header) == IF tier_header = None THEN "free" ELSE lower(tier_header)

\* _get_api_key_hash, then the fallback on request.client.host
adv_key(api_key, host) ==
    IF api_key # None THEN hash_api_key(api_key)
    ELSE IF host # None THEN <<"host", host>> ELSE <<"host", "unknown">>

\* the defaultdict factory: a missing entry is created at the first access
adv_entry(e) == IF e.reset_at = NoDate THEN [count |-> 0, reset_at |-> now + RESET_DAYS] ELSE e

adv_expired(e) == now >= e.reset_at

adv_after_reset(e) ==
    IF adv_expired(e) THEN [count |-> 0, reset_at |-> now + RESET_DAYS] ELSE e

adv_over_limit(count, limit) == count >= limit

adv_check(e, tier) ==
    LET limit == get_limit(tier)
        e1 == adv_after_reset(adv_entry(e))
    IN IF adv_over_limit(e1.count, limit)
       THEN [entry |-> e1, allowed |-> FALSE, remaining |-> 0, limit |-> limit,
             reset |-> e1.reset_at]
       ELSE [entry |-> [e1 EXCEPT !.count = e1.count + 1],
             allowed |-> TRUE, remaining |-> limit - (e1.count + 1), limit |-> limit,
             reset |-> e1.reset_at]

\* APIKeyRateLimiter.check_rate_limit(request)
APIKeyRateLimiter_check_rate_limit(api_key, host, tier_header) ==
    LET api_key_hash == adv_key(api_key, host)
        tier == get_user_tier(tier_header)
        e == requests[api_key_hash]
        r == adv_check(e, tier)
        rolled == e.reset_at = NoDate \/ adv_expired(adv_entry(e))
    IN /\ requests' = entry_written(requests, api_key_hash, r.entry)
       /\ advLast' = [valid |-> TRUE, key |-> api_key_hash, tier |-> tier, allowed |-> r.allowed,
                      remaining |-> r.remaining, limit |-> r.limit, reset |-> r.reset,
                      count_before |-> e.count, reset_before |-> e.reset_at,
                      rolled |-> rolled, at |-> now]
       /\ advWin' = [advWin EXCEPT ![api_key_hash] = WinAfter(@, rolled, r.allowed, r.limit)]

AdvCall ==
    /\ limiter = "APIKeyRateLimiter"
    /\ calls < MaxCalls
    /\ \E api_key \in ApiKeys \cup {None}, host \in Hosts \cup {None},
          tier_header \in TierHeaders :
          APIKeyRateLimiter_check_rate_limit(api_key, host, tier_header)
    /\ calls' = calls + 1
    /\ UNCHANGED <<now, limiter, usage, rlLast, rlWin, cvars, pvars, avars, hvars, fvars>>

(***************************************************************************)
(* Patent numbers: str.strip(), str.upper(), str.replace(" ", ""),         *)
(* str.startswith and re.match on sequences of characters.                 *)
(***************************************************************************)
Whitespace == {" ", "\t"}
Digits == {"0", "1", "2", "3", "4", "5", "6", "7", "8", "9"}

upper_char(c) ==
    CASE c = "e" -> "E" [] c = "p" -> "P" [] c = "u" -> "U" [] c = "s" -> "S"
      [] c = "x" -> "X" [] OTHER -> c

upper(s) == [i \in 1..Len(s) |-> upper_char(s[i])]

RECURSIVE lstrip(_)
lstrip(s) == IF s # <<>> /\ Head(s) \in Whitespace THEN lstrip(Tail(s)) ELSE s

RECURSIVE rstrip(_)
rstrip(s) ==
    IF s # <<>> /\ s[Len(s)] \in Whitespace THEN rstrip(SubSeq(s, 1, Len(s) - 1)) ELSE s

strip(s) == rstrip(lstrip(s))

IsNotSpace(c) == c # " "

remove_spaces_kept(s) == s

remove_spaces(s) == SelectSeq(s, IsNotSpace)

normalize_one_leading(s) ==
    remove_spaces(upper(IF s # <<>> /\ Head(s) \in Whitespace THEN Tail(s) ELSE s))

\* patent.strip().upper().replace(" ", "")
normalize(s) == remove_spaces(upper(strip(s)))

startswith(s, prefix) == Len(s) >= Len(prefix) /\ SubSeq(s, 1, Len(prefix)) = prefix

\* the endpoint's format check: patent.startswith(("EP", "US"))
valid_prefix(patent) == startswith(patent, <<"E", "P">>) \/ startswith(patent, <<"U", "S">>)

\* re.match(r'^(EP|US)\d{7,}', v) of PatentStatusRequest.validate_patent_format
matches_format(v) ==
    /\ valid_prefix(v)
    /\ Len(v) >= 9
    /\ \A i \in 3..9 : v[i] \in Digits

EP0683520 == <<"E", "P", "0", "6", "8", "3", "5", "2", "0">>
US9999999 == <<"U", "S", "9", "9", "9", "9", "9", "9", "9">>

\* the raw values of the query parameter the model draws from
RawInputs ==
    { EP0683520,
      <<" ", "u", "s", " ", "9", "9", "9", "9", "9", "9", "9", "\t">>,
      <<"X", "X", "1", "2", "3", "4", "5", "6", "7">>,
      <<"I", "N", "V", "A", "L", "I", "D", "1", "2", "3">>,
      <<"e", "p", "1", "2", "3">> }

(***************************************************************************)
(* CacheService (app/services/cache_service.py) on the patent_cache table. *)
(* The table is a set of rows; a Python dict is a function whose domain is *)
(* the dict's keys.                                                        *)
(***************************************************************************)
NoRow == [none |-> TRUE]

\* None where a dict is expected
NoData == [nodata |-> TRUE]

\* db.query(PatentCache).filter(PatentCache.patent_number == patent_number)
rows_for(c, patent_number) == {e \in c : e.patent_number = patent_number}

\* Query.first()
first(S) == IF S = {} THEN NoRow ELSE CHOOSE e \in S : TRUE

ttl_threshold == now - cache_ttl_days

is_stale_at_ttl(cache_entry) == cache_entry.last_fetched <= ttl_threshold

is_stale(cache_entry) == cache_entry.last_fetched < ttl_threshold

stale_result_evict(c, cache_entry) == [cache |-> c \ {cache_entry}, entry |-> NoRow]

\* get_cached_patent on a stale row: "return None", the row is not touched
stale_result(c, cache_entry) == [cache |-> c, entry |-> NoRow]

count_hit_drop(c, cache_entry) ==
    [cache |-> c \ {cache_entry}, entry |-> [cache_entry EXCEPT !.fetch_count = @ + 1]]

\* get_cached_patent on a fresh row: fetch_count += 1, commit, return the row
count_hit(c, cache_entry) ==
    LET e1 == [cache_entry EXCEPT !.fetch_count = @ + 1]
    IN [cache |-> (c \ {cache_entry}) \cup {e1}, entry |-> e1]

get_cached_patent_no_count(c, patent_number) ==
    LET cache_entry == first(rows_for(c, patent_number)) IN
    IF cache_entry = NoRow THEN [cache |-> c, entry |-> NoRow]
    ELSE IF is_stale(cache_entry) THEN [cache |-> c, entry |-> NoRow]
    ELSE [cache |-> c, entry |-> cache_entry]

\* CacheService.get_cached_patent: the table it leaves and what it returns
get_cached_patent(c, patent_number) ==
    LET cache_entry == first(rows_for(c, patent_number)) IN
    IF cache_entry = NoRow THEN [cache |-> c, entry |-> NoRow]
    ELSE IF is_stale(cache_entry) THEN stale_result(c, cache_entry)
    ELSE count_hit(c, cache_entry)

dict_get_none(d, key) == None

\* dict.get(key)
dict_get(d, key) == IF key \in DOMAIN d THEN d[key] ELSE None

save_patent_to_cache_insert(c, patent_data) ==
    IF "patent" \notin DOMAIN patent_data
    THEN [raised |-> "KeyError", cache |-> c, entry |-> NoRow]
    ELSE LET e1 == [patent_number |-> patent_data["patent"],
                    status |-> dict_get(patent_data, "status"),
                    expiry_date |-> dict_get(patent_data, "expiry_date"),
                    jurisdictions |-> dict_get(patent_data, "jurisdictions"),
                    lapse_reason |-> dict_get(patent_data, "lapse_reason"),
                    source |-> dict_get(patent_data, "source"),
                    last_fetched |-> now,
                    fetch_count |-> 1]
         IN [raised |-> None, cache |-> c \cup {e1}, entry |-> e1]

\* CacheService.save_patent_to_cache: patent_data["patent"] raises KeyError
\* when the dict has no such key
save_patent_to_cache(c, patent_data) ==
    IF "patent" \notin DOMAIN patent_data
    THEN [raised |-> "KeyError", cache |-> c, entry |-> NoRow]
    ELSE
    LET patent_number == patent_data["patent"]
        cache_entry == first(rows_for(c, patent_number))
    IN IF cache_entry # NoRow
       THEN LET e1 == [cache_entry EXCEPT
                          !.status = dict_get(patent_data, "status"),
                          !.expiry_date = dict_get(patent_data, "expiry_date"),
                          !.jurisdictions = dict_get(patent_data, "jurisdictions"),
                          !.lapse_reason = dict_get(patent_data, "lapse_reason"),
                          !.source = dict_get(patent_data, "source"),
                          !.last_fetched = now,
                          !.fetch_count = @ + 1]
            IN [raised |-> None, cache |-> (c \ {cache_entry}) \cup {e1}, entry |-> e1]
       ELSE LET e1 == [patent_number |-> patent_number,
                       status |-> dict_get(patent_data, "status"),
                       expiry_date |-> dict_get(patent_data, "expiry_date"),
                       jurisdictions |-> dict_get(patent_data, "jurisdictions"),
                       lapse_reason |-> dict_get(patent_data, "lapse_reason"),
                       source |-> dict_get(patent_data, "source"),
                       last_fetched |-> now,
                       fetch_count |-> 1]
            IN [raised |-> None, cache |-> c \cup {e1}, entry |-> e1]

\* the dicts the adapters return on success (get_patent_status of EPOService
\* and USPTOService); raw_data is opaque and left out
epo_data(patent_number, status, expiry_date) ==
    [patent_number |-> patent_number, status |-> status, expiry_date |-> expiry_date,
     jurisdictions |-> "primary:EP", lapse_reason |-> None, source |-> "EPO"]

uspto_data(patent_number, expiry_date) ==
    [patent_number |-> patent_number, status |-> "Granted", expiry_date |-> expiry_date,
     jurisdictions |-> "primary:US", lapse_reason |-> None, source |-> "USPTO"]

\* the dict the parameter of save_patent_to_cache is read as: keyed by "patent"
keyed_by_patent(d) ==
    [patent |-> d.patent_number, status |-> d.status, expiry_date |-> d.expiry_date,
     jurisdictions |-> d.jurisdictions, lapse_reason |-> d.lapse_reason, source |-> d.source]

\* the dicts direct calls of save_patent_to_cache are made with
PutDicts ==
    LET A == {epo_data(EP0683520, st, "2015-05-11") : st \in {"Granted", "Pending"}}
             \cup {uspto_data(US9999999, None)}
    IN A \cup {keyed_by_patent(d) : d \in A}

Ids == {normalize(x) : x \in RawInputs}

NoGet == [valid |-> FALSE, id |-> <<>>, at |-> 0, found |-> FALSE, last_fetched |-> NoDate,
          hit |-> FALSE]

\* a direct call of CacheService.get_cached_patent
CacheGet ==
    /\ calls < MaxCalls
    /\ \E id \in Ids :
          LET r == get_cached_patent(cache, id)
              e == first(rows_for(cache, id))
          IN /\ cache' = r.cache
             /\ lastGet' = [valid |-> TRUE, id |-> id, at |-> now, found |-> e # NoRow,
                            last_fetched |-> IF e # NoRow THEN e.last_fetched ELSE NoDate,
                            hit |-> r.entry # NoRow]
             /\ tally' = [tally EXCEPT ![id] = [ops |-> @.ops + 1,
                                                 hits |-> @.hits + (IF r.entry # NoRow THEN 1 ELSE 0),
                                                 puts |-> @.puts]]
    /\ calls' = calls + 1
    /\ UNCHANGED <<now, qvars, pvars, avars, hvars, fvars>>

\* a direct call of CacheService.save_patent_to_cache; a call that raises
\* is not counted as an operation performed
DirectPut(max) ==
    /\ calls < max
    /\ \E d \in PutDicts :
          LET r == save_patent_to_cache(cache, d) IN
          /\ cache' = r.cache
          /\ tally' = IF r.raised # None THEN tally
                      ELSE [tally EXCEPT ![d["patent"]] = [ops |-> @.ops + 1, hits |-> @.hits,
                                                            puts |-> @.puts + 1]]
          /\ lastPut' = IF r.raised # None THEN lastPut ELSE [valid |-> TRUE, data |-> d]
    /\ calls' = calls + 1
    /\ UNCHANGED <<now, qvars, lastGet, pvars, avars, lastHit, lastList, purges, fvars>>

CachePut == DirectPut(MaxCalls)

\* get_stale_patents: filter(PatentCache.last_fetched < ttl_threshold)
stale_filter(c) == {e \in c : e.last_fetched < ttl_threshold}

\* the orders in which a set of rows can be listed
listings(S) ==
    {s \in [1..Cardinality(S) -> S] : \A i, j \in DOMAIN s : i # j => s[i] # s[j]}

order_by_fetch_count_asc(S) ==
    {s \in listings(S) : \A i, j \in DOMAIN s : i < j => s[i].fetch_count <= s[j].fetch_count}

\* order_by(PatentCache.fetch_count.desc()): rows of equal count come in the
\* order the database chooses
order_by_fetch_count_desc(S) ==
    {s \in listings(S) : \A i, j \in DOMAIN s : i < j => s[i].fetch_count >= s[j].fetch_count}

\* .limit(limit).all()
limit_all(s, limit) == SubSeq(s, 1, Min(limit, Len(s)))

\* CacheService.get_stale_patents: the lists it can return
get_stale_patents(c, limit) ==
    {limit_all(s, limit) : s \in order_by_fetch_count_desc(stale_filter(c))}

NoList == [valid |-> FALSE, serial |-> 0, limit |-> 0, rows |-> <<>>]

\* a direct call of CacheService.get_stale_patents
ListStale ==
    /\ calls < MaxCalls
    /\ \E limit \in 0..MaxLimit :
          \E rows \in get_stale_patents(cache, limit) :
              lastList' = [valid |-> TRUE, serial |-> calls + 1, limit |-> limit,
                           rows |-> rows]
    /\ calls' = calls + 1
    /\ UNCHANGED <<now, qvars, cvars, pvars, avars, lastHit, lastPut, purges, fvars>>

\* CacheService.clear_cache: the rows of one patent number, or all rows when
\* the number is None or empty ("if patent_number:"), both written <<>> here
clear_cache(c, patent_number) ==
    IF patent_number # <<>>
    THEN c \ rows_for(c, patent_number)
    ELSE {}

\* a call of CacheService.clear_cache by an administrator
Purge ==
    /\ purges < MaxPurges
    /\ \E patent_number \in Ids \cup {<<>>} : cache' = clear_cache(cache, patent_number)
    /\ purges' = purges + 1
    /\ UNCHANGED <<now, calls, qvars, lastGet, tally, pvars, avars,
                   lastHit, lastList, lastPut, fvars>>

(***************************************************************************)
(* GET /api/v1/status: the rate_limiter dependency, the endpoint           *)
(* get_patent_status and PatentService.get_patent_status.  A request       *)
(* suspends only in the provider call of its adapter.                      *)
(***************************************************************************)
Reqs == 1..NumReq

NewRequest ==
    [pc |-> "new", quota |-> "none", patent |-> <<>>, db_failed |-> FALSE,
     adapter |-> "none", fetched |-> FALSE, result |-> "none", http |-> 0,
     gets |-> 0, puts |-> 0, fetches |-> 0, stale |-> FALSE]

\* RateLimiter.__call__: the key and the tier it reads from the headers
header_api_key(api_key_header) == IF api_key_header # None THEN api_key_header ELSE "anonymous"

header_tier(tier_header) == IF tier_header # None THEN tier_header ELSE "free"

rate_limited_never(c) == FALSE

\* RateLimiter.__call__: "if not allowed: raise HTTPException(429)"
rate_limited(c) == ~c.allowed

\* the dependency rate_limiter of the route: 429 when the call is not allowed.
\* Requests are numbered in the order in which they reach the dependency.
RateLimit(r) ==
    /\ req[r].pc = "new"
    /\ \A q \in Reqs : q < r => req[q].pc # "new"
    /\ \E api_key_header \in ApiKeys \cup {None}, tier_header \in {None} :
          LET key_hash == hash_api_key(header_api_key(api_key_header))
              c == rl_check(usage[key_hash], header_tier(tier_header))
          IN /\ usage' = entry_written(usage, key_hash, c.entry)
             /\ req' = [req EXCEPT ![r] =
                   IF rate_limited(c)
                   THEN [@ EXCEPT !.pc = "done", !.http = 429,
                                  !.quota = IF c.allowed THEN "allowed" ELSE "rejected"]
                   ELSE [@ EXCEPT !.pc = "admitted",
                                  !.quota = IF c.allowed THEN "allowed" ELSE "rejected"]]
    /\ UNCHANGED <<now, calls, limiter, requests, rlLast, rlWin, advLast, advWin, cvars, lastOk, avars, hvars, fvars>>

\* step 1 of PatentService.get_patent_status: a failing query raises
resolver_lookup_masking(c, patent_number, dbok) ==
    IF ~dbok THEN [raised |-> None, cache |-> c, entry |-> NoRow]
    ELSE [raised |-> None] @@ get_cached_patent(c, patent_number)

resolver_lookup(c, patent_number, dbok) ==
    IF ~dbok THEN [raised |-> "StoreError", cache |-> c, entry |-> NoRow]
    ELSE [raised |-> None] @@ get_cached_patent(c, patent_number)

\* the lookup returned None for a number that has a row: the row was stale
found_stale(c, patent_number, l) ==
    l.raised = None /\ l.entry = NoRow /\ rows_for(c, patent_number) # {}

select_adapter_epo_default(patent_number) ==
    IF startswith(patent_number, <<"U", "S">>) THEN "USPTO" ELSE "EPO"

\* step 2: the adapter by the prefix of the patent number
select_adapter(patent_number) ==
    IF startswith(patent_number, <<"E", "P">>) THEN "EPO"
    ELSE IF startswith(patent_number, <<"U", "S">>) THEN "USPTO"
    ELSE "none"

\* a row a resolver caching negative results would write
negative_row(patent_number) ==
    [patent_number |-> patent_number, status |-> "NotFound", expiry_date |-> None,
     jurisdictions |-> None, lapse_reason |-> None, source |-> None,
     last_fetched |-> now, fetch_count |-> 1]

store_fetched_negative(c, patent_number, patent_data) ==
    IF patent_data # NoData THEN save_patent_to_cache(c, patent_data)
    ELSE [raised |-> None, cache |-> c \cup {negative_row(patent_number)}, entry |-> NoRow]

\* step 3: "if patent_data: save_patent_to_cache"
store_fetched(c, patent_number, patent_data) ==
    IF patent_data # NoData THEN save_patent_to_cache(c, patent_data)
    ELSE [raised |-> None, cache |-> c, entry |-> NoRow]

\* PatentStatusResponse(...) in the endpoint: pydantic raises when a required
\* field is not among the keyword arguments
ResponseArguments == {"patent_number", "status", "expiry_date", "jurisdictions",
                      "lapse_reason", "source", "last_fetched", "cache_hit"}

RequiredFields == {"patent", "status", "source", "last_update"}

response_status == IF RequiredFields \subseteq ResponseArguments THEN 200 ELSE 500

valid_prefix_any(patent) == TRUE

\* the endpoint's "Validate format" test
endpoint_accepts(patent) == valid_prefix(patent)

\* the endpoint's normalisation of each input, and the resolver's normalisation
\* of what the endpoint passes on
normalized == [raw \in RawInputs |-> normalize(raw)]

normalized_again == [raw \in RawInputs |-> normalize(normalized[raw])]

\* the endpoint up to the first await: normalisation, the format check, the
\* resolver's cache lookup and, on a miss, the start of the provider call
Endpoint(r) ==
    /\ req[r].pc = "admitted"
    /\ \E raw \in RawInputs, dbok \in BOOLEAN :
          LET patent == normalized[raw]
              patent_number == normalized_again[raw]
              l == resolver_lookup(cache, patent_number, dbok)
              adapter == select_adapter(patent_number)
          IN IF ~endpoint_accepts(patent)
             THEN /\ req' = [req EXCEPT ![r] = [@ EXCEPT !.pc = "done", !.patent = patent,
                                                         !.http = 400]]
                  /\ cache' = cache
             ELSE IF l.raised # None
             THEN /\ req' = [req EXCEPT ![r] = [@ EXCEPT !.pc = "done", !.patent = patent_number,
                                                         !.db_failed = ~dbok, !.gets = 1,
                                                         !.stale = found_stale(cache, patent_number, l),
                                                         !.result = l.raised, !.http = 500]]
                  /\ cache' = cache
             ELSE IF l.entry # NoRow
             THEN /\ req' = [req EXCEPT ![r] = [@ EXCEPT !.pc = "done", !.patent = patent_number,
                                                         !.db_failed = ~dbok, !.gets = 1,
                                                         !.stale = found_stale(cache, patent_number, l),
                                                         !.result = "hit",
                                                         !.http = response_status]]
                  /\ cache' = l.cache
             ELSE IF adapter = "none"
             THEN /\ req' = [req EXCEPT ![r] = [@ EXCEPT !.pc = "done", !.patent = patent_number,
                                                         !.db_failed = ~dbok, !.gets = 1,
                                                         !.stale = found_stale(cache, patent_number, l),
                                                         !.result = "NotFound", !.http = 404]]
                  /\ cache' = l.cache
             ELSE /\ req' = [req EXCEPT ![r] = [@ EXCEPT !.pc = "fetching",
                                                         !.patent = patent_number,
                                                         !.db_failed = ~dbok, !.gets = 1,
                                                         !.stale = found_stale(cache, patent_number, l),
                                                         !.adapter = adapter, !.fetches = 1]]
                  /\ cache' = l.cache
    /\ UNCHANGED <<now, calls, qvars, lastGet, tally, lastOk, avars, hvars, fvars>>

\* what the providers may answer
EPOResponses == {"auth_failed", "timeout", "200_granted", "200_pending", "404", "500"}
USPTOResponses == {"timeout", "200_match", "200_empty", "200_error", "404", "500"}

\* EPOService.get_patent_status: the dict on a 200, None otherwise
EPOService_get_patent_status(patent_number, resp) ==
    CASE resp = "200_granted" -> epo_data(patent_number, "Granted", "2015-05-11")
      [] resp = "200_pending" -> epo_data(patent_number, "Pending", "2015-05-11")
      [] OTHER -> NoData

\* USPTOService.get_patent_status: the dict on a 200 with a match, None otherwise
USPTOService_get_patent_status(patent_number, resp) ==
    CASE resp = "200_match" -> uspto_data(patent_number, "2020-01-01")
      [] OTHER -> NoData

\* PatentService._normalize_response
normalize_response(data, source) ==
    IF "source" \in DOMAIN data THEN data
    ELSE [patent_number |-> dict_get(data, "patent_number"), status |-> dict_get(data, "status"),
          expiry_date |-> dict_get(data, "expiry_date"),
          jurisdictions |-> dict_get(data, "jurisdictions"),
          lapse_reason |-> dict_get(data, "lapse_reason"), source |-> source]

\* PatentService._try_epo and _try_uspto
try_adapter(adapter, patent_number, resp) ==
    LET data == IF adapter = "EPO" THEN EPOService_get_patent_status(patent_number, resp)
                ELSE USPTOService_get_patent_status(patent_number, resp)
    IN IF data # NoData THEN normalize_response(data, adapter) ELSE NoData

next_adapter_retry(adapter, patent_data) ==
    IF patent_data = NoData THEN adapter ELSE "none"

next_adapter_lens(adapter, patent_data) ==
    IF patent_data = NoData /\ adapter # "Lens" THEN "Lens" ELSE "none"

\* step 2 after the primary source returned: the Lens fallback is commented
\* out in all three branches, no further adapter is tried
next_adapter(adapter, patent_data) == "none"

not_found_serving_stale(c, patent_number) ==
    IF rows_for(c, patent_number) # {} THEN "hit" ELSE "NotFound"

\* step 4 without data: "Patent ... not found in any source", return None,
\* whatever the table holds
not_found(c, patent_number) == "NotFound"

\* the provider call returns: steps 3 and 4 of the resolver, and, for a request
\* of the endpoint, the endpoint's answer
ProviderReturn(r, endpoint) ==
    /\ req[r].pc = "fetching"
    /\ \E resp \in (IF req[r].adapter = "EPO" THEN EPOResponses ELSE USPTOResponses) :
          LET patent_data == try_adapter(req[r].adapter, req[r].patent, resp)
              s == store_fetched(cache, req[r].patent, patent_data)
              nxt == next_adapter(req[r].adapter, patent_data)
          IN IF nxt # "none"
             THEN /\ req' = [req EXCEPT ![r] = [@ EXCEPT !.adapter = nxt,
                                                         !.fetches = @ + 1]]
                  /\ UNCHANGED <<cache, lastOk>>
             ELSE
             /\ cache' = s.cache
             /\ req' = [req EXCEPT ![r] =
                   [@ EXCEPT !.pc = "done",
                             !.fetched = patent_data # NoData,
                             !.puts = IF patent_data # NoData THEN 1 ELSE 0,
                             !.result = IF patent_data = NoData
                                        THEN not_found(cache, req[r].patent)
                                        ELSE IF s.raised # None THEN s.raised ELSE "fresh",
                             !.http = IF ~endpoint THEN 0
                                      ELSE IF patent_data = NoData THEN 404
                                      ELSE IF s.raised # None THEN 500 ELSE response_status]]
             /\ lastOk' = IF patent_data # NoData THEN [lastOk EXCEPT ![req[r].patent] = now]
                          ELSE lastOk
    /\ UNCHANGED <<now, calls, qvars, lastGet, tally, avars, hvars, fvars>>

AdapterReturn(r) == ProviderReturn(r, TRUE)

hit_response_plain_source(cached) ==
    [patent_number |-> cached.patent_number, status |-> cached.status,
     expiry_date |-> cached.expiry_date, jurisdictions |-> cached.jurisdictions,
     lapse_reason |-> cached.lapse_reason, source |-> cached.source,
     last_fetched |-> cached.last_fetched, cache_hit |-> TRUE]

\* step 1 on a hit: the dict built from the cached row
hit_response(cached) ==
    [patent_number |-> cached.patent_number, status |-> cached.status,
     expiry_date |-> cached.expiry_date, jurisdictions |-> cached.jurisdictions,
     lapse_reason |-> cached.lapse_reason, source |-> cached.source \o " (cached)",
     last_fetched |-> cached.last_fetched, cache_hit |-> TRUE]

\* the last direct resolution answered from the cache: the row and the dict
NoHit == [valid |-> FALSE, entry |-> NoRow, data |-> NoData]

\* PatentService.get_patent_status called directly, up to its first await:
\* the normalisation, the cache lookup and the choice of the adapter.  The
\* exception of a failing lookup reaches the caller.
Resolve(r) ==
    /\ req[r].pc = "new"
    /\ \A q \in Reqs : q < r => req[q].pc # "new"
    /\ \E raw \in RawInputs, dbok \in BOOLEAN :
          LET patent_number == normalized[raw]
              l == resolver_lookup(cache, patent_number, dbok)
              adapter == select_adapter(patent_number)
              looked == [req[r] EXCEPT !.patent = patent_number, !.db_failed = ~dbok,
                                       !.gets = 1,
                                       !.stale = found_stale(cache, patent_number, l)]
          IN IF l.raised # None
             THEN /\ req' = [req EXCEPT ![r] = [looked EXCEPT !.pc = "done",
                                                              !.result = l.raised]]
                  /\ cache' = cache
                  /\ lastHit' = lastHit
             ELSE IF l.entry # NoRow
             THEN /\ req' = [req EXCEPT ![r] = [looked EXCEPT !.pc = "done",
                                                              !.result = "hit"]]
                  /\ cache' = l.cache
                  /\ lastHit' = [valid |-> TRUE, entry |-> l.entry,
                                 data |-> hit_response(l.entry)]
             ELSE IF adapter = "none"
             THEN /\ req' = [req EXCEPT ![r] = [looked EXCEPT !.pc = "done",
                                                              !.result = "NotFound"]]
                  /\ cache' = l.cache
                  /\ lastHit' = lastHit
             ELSE /\ req' = [req EXCEPT ![r] = [looked EXCEPT !.pc = "fetching",
                                                              !.adapter = adapter,
                                                              !.fetches = 1]]
                  /\ cache' = l.cache
                  /\ lastHit' = lastHit
    /\ UNCHANGED <<now, calls, qvars, lastGet, tally, lastOk, avars,
                   lastList, lastPut, purges, fvars>>

\* a direct call of save_patent_to_cache beside the direct resolutions
Store == DirectPut(MaxStores)

\* the provider call of a direct resolution returns
ResolveReturn(r) == ProviderReturn(r, FALSE)

\* a direct call of save_patent_to_cache beside the requests
Refresh == DirectPut(MaxPuts)

(***************************************************************************)
(* One EPOService and one USPTOService instance shared by concurrent       *)
(* get_patent_status calls.  A call suspends at "await client.post" of     *)
(* the token exchange and at the await of the data request; the code       *)
(* between two suspensions is one action.  minute is datetime.now() in     *)
(* minutes, token lifetimes are minutes.                                   *)
(***************************************************************************)
Tasks == 1..NumTasks

\* expires_in values the token endpoint may advertise, in minutes
Lifetimes == {10, 20}

NewTask ==
    [pc |-> "idle", adapter |-> "none", patent |-> <<>>, token |-> NoToken,
     exchanges |-> 0, attempts |-> 0]

\* the last get_patent_status call that ended, and how
NoReturn ==
    [valid |-> FALSE, adapter |-> "none", resp |-> "none", attempts |-> 0,
     raised |-> None, escaped |-> FALSE, data |-> NoData]

Returned(t, resp, raised, x) ==
    [valid |-> TRUE, adapter |-> task[t].adapter, resp |-> resp,
     attempts |-> task[t].attempts, raised |-> raised, escaped |-> x.escaped,
     data |-> x.data]

NoAcquisition == [valid |-> FALSE, at |-> 0, lifetime |-> 0, serial |-> 0]

token_valid_at_expiry(e) ==
    e.token # NoToken /\ e.token_expiry # NoDate /\ minute <= e.token_expiry

\* _get_token: "if self.token and self.token_expiry and now < self.token_expiry"
token_valid(e) ==
    e.token # NoToken /\ e.token_expiry # NoDate /\ minute < e.token_expiry

\* _get_token after a 200: the token and its expiry are stored on the instance
token_stored(access_token) ==
    [token |-> access_token, token_expiry |-> minute + TOKEN_CACHE_MINUTES]

adapter_except_reraise(exc) == [escaped |-> TRUE, data |-> NoData]

\* "except Exception as e: ... return None" around the body of both adapters
adapter_except(exc) == [escaped |-> FALSE, data |-> NoData]

\* the patent number the calls on an adapter ask for
task_patent(adapter) == IF adapter = "EPO" THEN EP0683520 ELSE US9999999

\* get_patent_status is called: an EPO call runs _get_token up to its return
\* of the cached token or up to the await of the token exchange, and with a
\* cached token on to the await of the data request
Fetch(t) ==
    /\ task[t].pc = "idle"
    /\ \A q \in Tasks : q < t => task[q].pc # "idle"
    /\ \E adapter \in {"EPO", "USPTO"} :
          task' = [task EXCEPT ![t] =
              IF adapter = "EPO" /\ ~token_valid(epo)
              THEN [@ EXCEPT !.pc = "token_wait", !.adapter = adapter,
                             !.patent = task_patent(adapter), !.exchanges = 1]
              ELSE [@ EXCEPT !.pc = "data_wait", !.adapter = adapter,
                             !.patent = task_patent(adapter),
                             !.token = IF adapter = "EPO" THEN epo.token ELSE NoToken,
                             !.attempts = 1]]
    /\ UNCHANGED <<now, calls, qvars, cvars, pvars, minute, epo, lastAcq, lastRet, hvars, fvars>>

TokenResponses == {"200", "401", "500", "timeout"}

\* the token exchange returns: a 200 stores the token and sends the data
\* request, anything else raises inside the try of get_patent_status
TokenResponse(t) ==
    /\ task[t].pc = "token_wait"
    /\ \E resp \in TokenResponses, lifetime \in Lifetimes :
          IF resp = "200"
          THEN LET access_token == lastAcq.serial + 1
               IN /\ epo' = token_stored(access_token)
                  /\ lastAcq' = [valid |-> TRUE, at |-> minute, lifetime |-> lifetime,
                                 serial |-> access_token]
                  /\ task' = [task EXCEPT ![t] = [@ EXCEPT !.pc = "data_wait",
                                                           !.token = access_token,
                                                           !.attempts = 1]]
                  /\ lastRet' = lastRet
          ELSE LET exc == IF resp = "timeout" THEN "TimeoutException" ELSE "Exception"
               IN /\ task' = [task EXCEPT ![t] = [@ EXCEPT !.pc = "done"]]
                  /\ lastRet' = Returned(t, "auth_" \o resp, exc, adapter_except(exc))
                  /\ UNCHANGED <<epo, lastAcq>>
    /\ UNCHANGED <<now, calls, qvars, cvars, pvars, minute, hvars, fvars>>

\* the data request returns and get_patent_status runs to its return
DataResponse(t) ==
    /\ task[t].pc = "data_wait"
    /\ \E resp \in (IF task[t].adapter = "EPO" THEN EPOResponses \ {"auth_failed"}
                    ELSE USPTOResponses) :
          /\ task' = [task EXCEPT ![t] = [@ EXCEPT !.pc = "done"]]
          /\ lastRet' =
                IF resp = "timeout"
                THEN Returned(t, resp, "TimeoutException", adapter_except("TimeoutException"))
                ELSE Returned(t, resp, None,
                        [escaped |-> FALSE,
                         data |-> IF task[t].adapter = "EPO"
                                  THEN EPOService_get_patent_status(task[t].patent, resp)
                                  ELSE USPTOService_get_patent_status(task[t].patent, resp)])
    /\ UNCHANGED <<now, calls, qvars, cvars, pvars, minute, epo, lastAcq, hvars, fvars>>

\* the adapters' clock
Tock ==
    /\ minute + TickMinutes <= MaxMinute
    /\ minute' = minute + TickMinutes
    /\ UNCHANGED <<now, calls, qvars, cvars, pvars, epo, task, lastAcq, lastRet, hvars, fvars>>

(***************************************************************************)
(* The clock.                                                              *)
(***************************************************************************)
Tick ==
    /\ now + TickDays <= MaxTime
    /\ now' = now + TickDays
    /\ UNCHANGED <<calls, qvars, cvars, pvars, avars, hvars, fvars>>

(***************************************************************************)
(* The normalisation of a patent number, applied by the endpoint and again *)
(* by the resolver, on inputs over a small alphabet.                       *)
(***************************************************************************)
Alphabet == {" ", "\t", "e", "P", "1"}

ep_1234567 == <<"e", "p", " ", "1", "2", "3", "4", "5", "6", "7">>

Texts == UNION {[1..n -> Alphabet] : n \in 0..MaxLen} \cup {ep_1234567}

NoNorm == [step |-> "none", input |-> <<>>, once |-> <<>>, twice |-> <<>>]

\* the endpoint normalises the query parameter
NormalizeOnce ==
    /\ norm.step = "input"
    /\ norm' = [norm EXCEPT !.step = "endpoint", !.once = normalize(norm.input)]
    /\ UNCHANGED <<now, calls, qvars, cvars, pvars, avars, hvars, ident>>

\* the resolver normalises what the endpoint passed on
NormalizeAgain ==
    /\ norm.step = "endpoint"
    /\ norm' = [norm EXCEPT !.step = "resolver", !.twice = normalize(norm.once)]
    /\ UNCHANGED <<now, calls, qvars, cvars, pvars, avars, hvars, ident>>

(***************************************************************************)
(* The caller key and the tier limit each limiter derives from a request:  *)
(* the credential header, the client host and the subscription header.     *)
(***************************************************************************)
Callers == {"a", "b"}

\* request.client.host; None when request.client is None
ClientHosts == {"10.0.0.1", "10.0.0.2", None}

RequestHeaders ==
    [api_key : ApiKeys \cup {None}, host : ClientHosts, tier : TierLabels \cup {None}]

NoIdent == [c \in Callers |-> [api_key |-> None, host |-> None, tier |-> None,
                               done |-> FALSE, key |-> <<>>, limit |-> 0]]

\* RateLimiter.__call__ up to check_rate_limit's key and limit
rl_identity(h) ==
    [key |-> hash_api_key(header_api_key(h.api_key)),
     limit |-> get_tier_limit(header_tier(h.tier))]

\* APIKeyRateLimiter.check_rate_limit up to its key and limit
adv_identity(h) ==
    [key |-> adv_key(h.api_key, h.host), limit |-> get_limit(get_user_tier(h.tier))]

\* the mounted limiter derives the key and the limit of a caller's request
Identify(c) ==
    /\ ~ident[c].done
    /\ LET id == IF limiter = "RateLimiter" THEN rl_identity(ident[c])
                 ELSE adv_identity(ident[c])
       IN ident' = [ident EXCEPT ![c] = [@ EXCEPT !.done = TRUE, !.key = id.key,
                                                  !.limit = id.limit]]
    /\ UNCHANGED <<now, calls, qvars, cvars, pvars, avars, hvars, norm>>

\* the application mounts one limiter object as the dependency of its routes
\* (endpoints.py mounts rate_limiter); the two objects share no state
Limiters == {"RateLimiter", "APIKeyRateLimiter"}

InitState ==
    /\ now = 0
    /\ calls = 0
    /\ usage = [k \in RLKeys |-> [count |-> 0, reset_date |-> NoDate]]
    /\ requests = [k \in AdvKeys |-> [count |-> 0, reset_at |-> NoDate]]
    /\ rlLast = NoCall
    /\ rlWin = [k \in RLKeys |-> NewWin]
    /\ advLast = NoCall
    /\ advWin = [k \in AdvKeys |-> NewWin]
    /\ cache = {}
    /\ lastGet = NoGet
    /\ tally = [id \in Ids |-> [ops |-> 0, hits |-> 0, puts |-> 0]]
    /\ req = [r \in Reqs |-> NewRequest]
    /\ lastOk = [id \in Ids |-> NoDate]
    /\ minute = 0
    /\ epo = [token |-> NoToken, token_expiry |-> NoDate]
    /\ task = [t \in Tasks |-> NewTask]
    /\ lastAcq = NoAcquisition
    /\ lastRet = NoReturn
    /\ lastHit = NoHit
    /\ lastList = NoList
    /\ lastPut = [valid |-> FALSE, data |-> NoData]
    /\ purges = 0

InitFunctions == norm = NoNorm /\ ident = NoIdent

InitQuota == InitState /\ InitFunctions /\ limiter \in Limiters

Init == InitState /\ InitFunctions /\ limiter = "RateLimiter"

InitNormalize ==
    /\ InitState /\ limiter = "RateLimiter" /\ ident = NoIdent
    /\ norm \in {[NoNorm EXCEPT !.step = "input", !.input = t] : t \in Texts}

NextNormalize == NormalizeOnce \/ NormalizeAgain

SpecNormalize == InitNormalize /\ [][NextNormalize]_vars

InitCaller ==
    /\ InitState /\ limiter \in Limiters /\ norm = NoNorm
    /\ ident \in {[c \in Callers |-> [api_key |-> f[c].api_key, host |-> f[c].host,
                                       tier |-> f[c].tier, done |-> FALSE,
                                       key |-> <<>>, limit |-> 0]] :
                   f \in [Callers -> RequestHeaders]}

NextCaller == \E c \in Callers : Identify(c)

SpecCaller == InitCaller /\ [][NextCaller]_vars

NextQuota == RLCall \/ AdvCall \/ Tick

SpecQuota == InitQuota /\ [][NextQuota]_vars

Next ==
    \/ \E r \in Reqs : RateLimit(r)
    \/ \E r \in Reqs : Endpoint(r)
    \/ \E r \in Reqs : AdapterReturn(r)
    \/ Refresh
    \/ Tick

Spec == Init /\ [][Next]_vars

\* the event loop resumes every request that can run, and every provider call
\* answers or runs into its timeout (timeout=30.0 on the httpx clients)
Fairness == \A r \in Reqs : WF_vars(Endpoint(r)) /\ WF_vars(AdapterReturn(r))

SpecLive == Init /\ [][Next]_vars /\ Fairness

NextCache == CacheGet \/ CachePut \/ ListStale \/ Tick

SpecCache == Init /\ [][NextCache]_vars

NextResolver ==
    \/ \E r \in Reqs : Resolve(r)
    \/ \E r \in Reqs : ResolveReturn(r)
    \/ Store
    \/ Purge
    \/ Tick

SpecResolver == Init /\ [][NextResolver]_vars

NextAdapter ==
    \/ \E t \in Tasks : Fetch(t)
    \/ \E t \in Tasks : TokenResponse(t)
    \/ \E t \in Tasks : DataResponse(t)
    \/ Tock

SpecAdapter == Init /\ [][NextAdapter]_vars

(***************************************************************************)
(* Quota tracker properties (SpecQuota).                                   *)
(***************************************************************************)
\* the window tally of one key agrees with the limit L applied to its calls:
\* of N calls, Min(N, L) are admitted
WinExact(w) == (w.calls > 0 /\ w.uniform) => (w.admitted = Min(w.calls, w.limit))

\* C1: of N calls on one caller key in one window, all with tier limit L,
\* exactly L are admitted and N - L rejected when N > L (Min(N, L) in general),
\* in every order of the calls, and the count is at most L when a call is admitted.
C1_QuotaAtomicity ==
    /\ \A k \in RLKeys : WinExact(rlWin[k]) /\ rlWin[k].admitted = usage[k].count
    /\ \A k \in AdvKeys : WinExact(advWin[k]) /\ advWin[k].admitted = requests[k].count
    /\ (rlLast.valid /\ rlLast.allowed) => usage[rlLast.key].count <= rlLast.limit
    /\ (advLast.valid /\ advLast.allowed) => requests[advLast.key].count <= advLast.limit

\* more calls than the limit were made on one key in one window
C1_Witness ==
    \E k \in RLKeys :
        /\ rlWin[k].uniform
        /\ rlWin[k].limit = rate_limit_basic
        /\ rlWin[k].calls > rlWin[k].limit
        /\ rlWin[k].admitted = rlWin[k].limit

\* the last call was made at or after the reset time it found
Due(c) == c.valid /\ c.reset_before # NoDate /\ c.at >= c.reset_before

\* C7: a call at or after resetAt finds the count reset to 0 and a new window
\* of 30 days started at the call, and is admitted with count 1, also after an
\* exhausted window; a call before resetAt keeps the window; nothing but a
\* call changes a counter.
C7_Rollover ==
    /\ [](Due(rlLast) => /\ rlLast.allowed
                         /\ usage[rlLast.key].count = 1
                         /\ usage[rlLast.key].reset_date = rlLast.at + RESET_DAYS)
    /\ [](Due(advLast) => /\ advLast.allowed
                          /\ requests[advLast.key].count = 1
                          /\ requests[advLast.key].reset_at = advLast.at + RESET_DAYS)
    /\ []((rlLast.valid /\ rlLast.reset_before # NoDate /\ rlLast.at < rlLast.reset_before)
            => /\ usage[rlLast.key].reset_date = rlLast.reset_before
               /\ usage[rlLast.key].count >= rlLast.count_before)
    /\ []((advLast.valid /\ advLast.reset_before # NoDate /\ advLast.at < advLast.reset_before)
            => /\ requests[advLast.key].reset_at = advLast.reset_before
               /\ requests[advLast.key].count >= advLast.count_before)
    /\ [][(usage' # usage \/ requests' # requests) => calls' = calls + 1]_vars

\* a call at resetAt exactly, after a window whose free quota was used up
C7_Witness ==
    /\ Due(rlLast)
    /\ rlLast.at = rlLast.reset_before
    /\ rlLast.count_before >= rlLast.limit
    /\ rlLast.allowed

\* the last call found the count at its limit inside the window
Exhausted(c) ==
    c.valid /\ c.reset_before # NoDate /\ c.at < c.reset_before /\ c.count_before >= c.limit

\* C8: once the count of a key has reached the limit, a further call is
\* rejected until resetAt has passed, and the rejection carries the reset time.
C8_RejectedWithReset ==
    /\ Exhausted(rlLast) => (~rlLast.allowed /\ rlLast.reset = usage[rlLast.key].reset_date)
    /\ Exhausted(advLast) => (~advLast.allowed /\ advLast.reset = requests[advLast.key].reset_at)

(***************************************************************************)
(* Cache store properties (SpecCache).                                     *)
(***************************************************************************)
\* the last get found a row for its identifier, fetched Age days before
Age(g) == g.at - g.last_fetched

\* C3 as stated: a get is a hit when less than TTL has passed since the entry
\* was fetched and a miss when TTL or more has passed, TTL exactly included.
C3_FreshnessStrict ==
    (lastGet.valid /\ lastGet.found) => (lastGet.hit <=> Age(lastGet) < cache_ttl_days)

\* C3 amended: a get is a hit when at most TTL has passed since the entry was
\* fetched, TTL exactly included, and a miss when more than TTL has passed.
C3_Freshness ==
    (lastGet.valid /\ lastGet.found) => (lastGet.hit <=> Age(lastGet) <= cache_ttl_days)

\* a get exactly TTL after the fetch, which hit
C3_Witness ==
    lastGet.valid /\ lastGet.found /\ Age(lastGet) = cache_ttl_days /\ lastGet.hit

\* C9 as stated: the popularity counter of an entry equals the number of get
\* and put operations performed on its identifier since there was no entry.
C9_CountEqualsOps ==
    \A e \in cache : e.fetch_count = tally[e.patent_number].ops

\* C9 amended: the popularity counter of an entry equals the number of puts
\* that stored a record for its identifier plus the number of gets that
\* returned the entry; a get that finds no entry or a stale entry adds nothing.
C9_CountEqualsHitsAndPuts ==
    /\ \A e \in cache : e.fetch_count = tally[e.patent_number].puts + tally[e.patent_number].hits
    /\ \A id \in Ids : rows_for(cache, id) = {} => tally[id].puts + tally[id].hits = 0

\* an entry that was put, read, missed as stale and put again
C9_Witness ==
    \E e \in cache :
        /\ tally[e.patent_number].hits >= 1
        /\ tally[e.patent_number].puts >= 2
        /\ tally[e.patent_number].ops > e.fetch_count

(***************************************************************************)
(* Resolution path properties (Spec).                                      *)
(***************************************************************************)
\* request r has left the endpoint's synchronous part in this step, having
\* passed the format check and read the cache without a store error
Looked(r) ==
    /\ req[r].pc = "admitted"
    /\ req'[r].pc # "admitted"
    /\ req'[r].http # 400
    /\ ~req'[r].db_failed

\* the EPO adapter succeeded for the valid identifier id less than TTL ago
FetchedWithinTTL(id) ==
    /\ matches_format(id)
    /\ select_adapter(id) = "EPO"
    /\ lastOk[id] # NoDate
    /\ now - lastOk[id] < cache_ttl_days

\* C2: a resolution of an EP identifier whose EPO fetch succeeds invokes the
\* EPO adapter exactly once, and a later resolution of the same identifier
\* within the TTL invokes no adapter and returns the record with cacheHit=true.
C2_ScenarioA ==
    /\ [](\A r \in Reqs : (req[r].fetched /\ matches_format(req[r].patent)
                                           /\ startswith(req[r].patent, <<"E", "P">>))
                            => (req[r].adapter = "EPO" /\ req[r].fetches = 1))
    /\ [][\A r \in Reqs : (Looked(r) /\ FetchedWithinTTL(req'[r].patent))
                            => (req'[r].result = "hit" /\ req'[r].fetches = 0)]_vars

\* C4: when the adapter reports no match or fails, the resolver returns
\* NotFound (404) and the step leaves the cache table as it was: no row is
\* added or changed.
C4_NegativeNotCached ==
    [][\A r \in Reqs :
          (req[r].pc = "fetching" /\ req'[r].pc = "done" /\ ~req'[r].fetched)
          => /\ req'[r].result = "NotFound"
             /\ req'[r].http = 404
             /\ req'[r].puts = 0
             /\ cache' = cache]_vars

\* US9999999 was not found by USPTO while a stale row for it is in the table
C4_Witness ==
    \E r \in Reqs :
        /\ req[r].pc = "done"
        /\ req[r].patent = US9999999
        /\ req[r].adapter = "USPTO"
        /\ req[r].result = "NotFound"
        /\ \E e \in cache : e.patent_number = US9999999 /\ e.fetch_count = 1

\* the first two characters are a jurisdiction code the engine recognizes
RecognizedPrefix(p) == Len(p) >= 2 /\ <<p[1], p[2]>> \in {<<"E", "P">>, <<"U", "S">>}

\* request r was admitted by the quota check and has ended
Answered(r) == req[r].pc = "done" /\ req[r].http # 429

\* C5: a request whose normalized patent number has an unrecognized prefix ends
\* in ValidationError (400) without any access to the cache or to an adapter.
C5_BadPrefixRejected ==
    \A r \in Reqs :
        (Answered(r) /\ ~RecognizedPrefix(req[r].patent))
        => /\ req[r].http = 400
           /\ req[r].gets = 0 /\ req[r].puts = 0 /\ req[r].fetches = 0

\* XX1234567 was answered 400
C5_Witness ==
    \E r \in Reqs :
        /\ Answered(r)
        /\ req[r].patent = <<"X", "X", "1", "2", "3", "4", "5", "6", "7">>
        /\ req[r].http = 400

\* C6: a request whose normalized patent number does not match
\* ^(EP|US)\d{7,} ends in ValidationError (400) and reaches neither the cache
\* nor an adapter.
C6_BadFormatRejected ==
    \A r \in Reqs :
        (Answered(r) /\ ~matches_format(req[r].patent))
        => /\ req[r].http = 400
           /\ req[r].gets = 0 /\ req[r].fetches = 0

\* C10: when the cache lookup of the resolver raises a store error the request
\* fails with it (500) and no adapter is invoked: the error is not taken for a
\* cache miss.
C10_StoreErrorSurfaced ==
    \A r \in Reqs :
        req[r].db_failed
        => /\ req[r].pc = "done"
           /\ req[r].result = "StoreError"
           /\ req[r].http = 500
           /\ req[r].adapter = "none" /\ req[r].fetches = 0

\* the lookup of EP0683520 failed in the store
C10_Witness ==
    \E r \in Reqs : req[r].db_failed /\ req[r].patent = EP0683520 /\ req[r].http = 500

(***************************************************************************)
(* Adapter properties (SpecAdapter).                                       *)
(***************************************************************************)
\* the calls waiting for the answer of a token exchange
Exchanging == {t \in Tasks : task[t].pc = "token_wait"}

\* C11: on one EPO adapter instance at most one token exchange is in flight at
\* any time; concurrent calls that find no valid token do not each issue one.
C11_TokenSerialized == Cardinality(Exchanging) <= 1

\* a call on the EPO adapter leaves _get_token's test of the cached token
Checked(t) == task[t].pc = "idle" /\ task'[t].pc # "idle" /\ task'[t].adapter = "EPO"

\* C12: _get_token returns the cached token, without a token exchange, exactly
\* when a token is cached and now < its cached expiry; when no token is cached
\* or now >= the cached expiry it starts a token exchange.
C12_TokenReacquired ==
    [][\A t \in Tasks : Checked(t) =>
          IF epo.token # NoToken /\ minute < epo.token_expiry
          THEN /\ task'[t].pc = "data_wait"
               /\ task'[t].token = epo.token
               /\ task'[t].exchanges = 0
          ELSE /\ task'[t].pc = "token_wait"
               /\ task'[t].exchanges = 1
               /\ task'[t].token = NoToken]_vars

\* one call reused the cached token, and another found the cached token at or
\* past its expiry and waits for a new one
C12_Witness ==
    /\ \E t \in Tasks : task[t].adapter = "EPO" /\ task[t].exchanges = 0
                        /\ task[t].token # NoToken
    /\ \E t \in Tasks : task[t].pc = "token_wait" /\ epo.token # NoToken
                        /\ minute >= epo.token_expiry

\* C13: after a token acquisition at time t with advertised lifetime E, the
\* cached expiry is at most t + E - 60 s (one minute), for every E.
C13_ExpiryWithinLifetime ==
    lastAcq.valid => epo.token_expiry <= lastAcq.at + lastAcq.lifetime - 1

\* provider answers that are transient failures of the data request
Transient == {"timeout", "500"}

\* C14: a call that ends in a transient failure (timeout or 5xx) has made the
\* configured maximum number of attempts; a call that ends in another 4xx
\* has made one attempt.
C14_RetriesTransient ==
    /\ (lastRet.valid /\ lastRet.resp \in Transient) => lastRet.attempts = max_retries
    /\ (lastRet.valid /\ lastRet.resp = "404") => lastRet.attempts = 1

\* answers after which the adapter has no record to return
Failures == {"auth_401", "auth_500", "auth_timeout", "timeout", "404", "500",
             "200_empty", "200_error"}

\* C15: no exception escapes get_patent_status of an adapter: a failed token
\* exchange, a non-2xx data response, a timeout or an exception inside the
\* adapter ends the call with None returned to the resolver.
C15_NoCrash ==
    lastRet.valid =>
        /\ ~lastRet.escaped
        /\ (lastRet.resp \in Failures \/ lastRet.raised # None) => lastRet.data = NoData

\* a call ended by an exception raised inside the adapter: the token exchange failed
C15_Witness ==
    lastRet.valid /\ lastRet.adapter = "EPO" /\ lastRet.raised = "Exception"
                  /\ lastRet.resp = "auth_401"

\* C16: a provider error (non-2xx or timeout) of the USPTO adapter yields an
\* outcome different from the outcome of an empty match list (NotFound).
C16_NotFoundDistinct ==
    (lastRet.valid /\ lastRet.adapter = "USPTO" /\ lastRet.resp \in {"404", "500", "timeout"})
        => lastRet.data # USPTOService_get_patent_status(US9999999, "200_empty")

(***************************************************************************)
(* Resolver properties (SpecResolver: direct resolutions and puts; Spec).  *)
(***************************************************************************)
\* C17: in every reachable state, whatever the interleaving of resolutions
\* and puts, the cache table holds at most one row per patent number.
C17_OneEntryPerId == \A id \in Ids : Cardinality(rows_for(cache, id)) <= 1

\* a row written, read by a resolution as a hit and written again
C17_Witness ==
    /\ \E e \in cache : e.patent_number = EP0683520 /\ e.fetch_count >= 3
                        /\ tally[EP0683520].puts >= 2
    /\ \E r \in Reqs : req[r].patent = EP0683520 /\ req[r].result = "hit"

\* both requests resolved the same valid identifier and both fetched a record
BothFetched(r1, r2) ==
    /\ r1 # r2
    /\ req[r1].pc = "done" /\ req[r2].pc = "done"
    /\ req[r1].patent = req[r2].patent /\ matches_format(req[r1].patent)
    /\ req[r1].fetched /\ req[r2].fetched

\* C18: when two resolutions of one uncached identifier both miss and both
\* fetch successfully, both write-throughs complete without error, both
\* requests return a record and the cache holds one row for the identifier.
C18_LastWriterWins ==
    \A r1, r2 \in Reqs : BothFetched(r1, r2) =>
        /\ req[r1].result = "fresh" /\ req[r2].result = "fresh"
        /\ req[r1].http = 200 /\ req[r2].http = 200
        /\ Cardinality(rows_for(cache, req[r1].patent)) = 1

\* the resolution of r went past the cache lookup without a hit
Missed(r) ==
    /\ req[r].pc \in {"fetching", "done"}
    /\ req[r].gets = 1
    /\ req[r].result \notin {"hit", "StoreError"}

\* C19: on a miss or a stale row the resolver invokes the EPO adapter for an
\* EP number, the USPTO adapter for a US number, and for any other prefix no
\* adapter, with NotFound as the result.
C19_AdapterByPrefix ==
    \A r \in Reqs : Missed(r) =>
        IF startswith(req[r].patent, <<"E", "P">>) THEN req[r].adapter = "EPO"
        ELSE IF startswith(req[r].patent, <<"U", "S">>) THEN req[r].adapter = "USPTO"
        ELSE /\ req[r].adapter = "none" /\ req[r].fetches = 0
             /\ req[r].pc = "done" /\ req[r].result = "NotFound"

\* XX1234567 was resolved to NotFound without an adapter, and EP0683520, whose
\* row is stale, is being fetched from EPO
C19_Witness ==
    /\ \E r \in Reqs : Missed(r) /\ req[r].patent = <<"X", "X", "1", "2", "3", "4", "5", "6", "7">>
                       /\ req[r].result = "NotFound"
    /\ \E r \in Reqs : /\ Missed(r) /\ req[r].patent = EP0683520 /\ req[r].adapter = "EPO"
                       /\ \E e \in rows_for(cache, EP0683520) : e.last_fetched < now - cache_ttl_days

ReturnedFetched(r) == req[r].pc = "fetching" /\ req'[r].pc = "done" /\ req'[r].fetched

\* C21: when the adapter succeeded, the resolution returns the fetched record
\* (annotated cache_hit = false) and at that moment the cache holds a row for
\* the identifier last fetched now.
C21_WriteThrough ==
    [][\A r \in Reqs : ReturnedFetched(r) =>
          /\ req'[r].result = "fresh"
          /\ \E e \in rows_for(cache', req[r].patent) : e.last_fetched = now]_vars

\* C22: on a hit the resolver returns the stored row's patent number, status,
\* expiry date, jurisdictions and lapse reason unchanged, cache_hit = true and
\* as source the stored source followed by " (cached)".
C22_HitReturnsStored ==
    lastHit.valid =>
        /\ lastHit.data.patent_number = lastHit.entry.patent_number
        /\ lastHit.data.status = lastHit.entry.status
        /\ lastHit.data.expiry_date = lastHit.entry.expiry_date
        /\ lastHit.data.jurisdictions = lastHit.entry.jurisdictions
        /\ lastHit.data.lapse_reason = lastHit.entry.lapse_reason
        /\ lastHit.data.cache_hit = TRUE
        /\ lastHit.data.source = lastHit.entry.source \o " (cached)"

\* a direct resolution of EP0683520 was answered from a row stored with source EPO
C22_Witness ==
    /\ lastHit.valid /\ lastHit.entry.patent_number = EP0683520
    /\ lastHit.entry.source = "EPO" /\ lastHit.data.source = "EPO (cached)"

\* C26: a request the quota check rejected ends with 429 without any access to
\* the resolver, the cache or an adapter; only admitted requests reach them.
C26_QuotaFirst ==
    \A r \in Reqs :
        /\ req[r].quota = "rejected" =>
              /\ req[r].pc = "done" /\ req[r].http = 429
              /\ req[r].patent = <<>>
              /\ req[r].gets = 0 /\ req[r].fetches = 0 /\ req[r].puts = 0
        /\ (req[r].gets > 0 \/ req[r].fetches > 0 \/ req[r].puts > 0)
              => req[r].quota = "allowed"

\* one request was rejected while another, admitted, read the cache
C26_Witness ==
    /\ \E r \in Reqs : req[r].quota = "rejected" /\ req[r].http = 429
    /\ \E r \in Reqs : req[r].quota = "allowed" /\ req[r].gets = 1

\* C30: no step of a resolution or of a put removes a cache row: the set of
\* cached patent numbers only grows as long as clear_cache is not called.
C30_NeverRemoved ==
    [][purges' = purges =>
          \A id \in Ids : rows_for(cache, id) # {} => rows_for(cache', id) # {}]_vars

\* a row outlived a hit and a failed refresh after it became stale
C30_Witness ==
    /\ purges = 0
    /\ \E r \in Reqs : req[r].patent = EP0683520 /\ req[r].result = "hit"
    /\ \E r \in Reqs : /\ req[r].patent = EP0683520 /\ req[r].pc = "done"
                       /\ req[r].fetches = 1 /\ req[r].result = "NotFound"
    /\ rows_for(cache, EP0683520) # {}

(***************************************************************************)
(* Normalisation (SpecNormalize) and caller identity (SpecCaller).         *)
(***************************************************************************)
\* C23: normalising a normalised identifier changes nothing, and "ep 1234567"
\* is normalised to "EP1234567".
C23_NormalizeIdempotent ==
    /\ norm.step = "resolver" => norm.twice = norm.once
    /\ (norm.step \in {"endpoint", "resolver"} /\ norm.input = ep_1234567)
          => norm.once = <<"E", "P", "1", "2", "3", "4", "5", "6", "7">>

\* an input with whitespace at both ends was normalised twice
C23_Witness ==
    /\ norm.step = "resolver"
    /\ norm.input = <<"\t", "e", " ">>
    /\ norm.once = <<"E">>

\* the limit of a tier label when every label but free, basic and pro counts as free
FreeBasicPro(tier_header) ==
    LET t == IF tier_header = None THEN "free" ELSE lower(tier_header) IN
    CASE t = "basic" -> rate_limit_basic
      [] t = "pro" -> rate_limit_pro
      [] OTHER -> rate_limit_free

\* C24 as stated: the limit applied is the configured limit of the tier for
\* free, basic and pro and the free limit for every other label.
C24_TierLimit == \A c \in Callers : ident[c].done => ident[c].limit = FreeBasicPro(ident[c].tier)

\* C24: the limit applied is the configured limit of the tier for free, basic
\* and pro (compared without case), 999999 for the label enterprise in
\* RateLimiter, and the free limit for every other label.
C24_TierLimitEnterprise ==
    \A c \in Callers : ident[c].done =>
        ident[c].limit =
            IF limiter = "RateLimiter" /\ ident[c].tier = "enterprise"
            THEN ENTERPRISE_LIMIT
            ELSE FreeBasicPro(ident[c].tier)

\* RateLimiter took the label gold as free and the label enterprise as unlimited
C24_Witness ==
    /\ limiter = "RateLimiter"
    /\ \E c \in Callers : ident[c].done /\ ident[c].tier = "gold"
                          /\ ident[c].limit = rate_limit_free
    /\ \E c \in Callers : ident[c].done /\ ident[c].tier = "enterprise"
                          /\ ident[c].limit = ENTERPRISE_LIMIT

\* C25: with a credential header the quota key is its hash; without one the
\* key is derived from the client IP: equal for equal IPs, different for
\* different IPs.
C25_KeyFromCredentialOrIp ==
    /\ \A c \in Callers : (ident[c].done /\ ident[c].api_key # None)
                            => ident[c].key = hash_api_key(ident[c].api_key)
    /\ \A c, d \in Callers :
          (ident[c].done /\ ident[d].done /\ ident[c].api_key = None /\ ident[d].api_key = None)
              => ((ident[c].key = ident[d].key) <=> (ident[c].host = ident[d].host))

(***************************************************************************)
(* Cache store properties (SpecCache).                                     *)
(***************************************************************************)
\* the step is a get_cached_patent call for id
GetStep(id) == tally'[id].ops = tally[id].ops + 1 /\ tally'[id].puts = tally[id].puts

\* the step is a save_patent_to_cache call that stored a record for id
PutStep(id) == tally'[id].puts = tally[id].puts + 1

\* the step is a get_stale_patents call
ListStep == lastList'.serial # lastList.serial

Listed(l) == {l.rows[i] : i \in DOMAIN l.rows}

Stale(e) == e.last_fetched < now - cache_ttl_days

\* C27: a get on an identifier whose row is stale returns nothing and leaves
\* the table as it is, and a listing of the stale rows with a limit of at
\* least the number of rows returns every stale row.
C27_StaleKept ==
    [][/\ \A id \in Ids : (GetStep(id) /\ \E e \in rows_for(cache, id) : Stale(e))
                             => (~lastGet'.hit /\ cache' = cache)
       /\ (ListStep /\ lastList'.limit >= Cardinality(cache))
             => (cache' = cache /\ \A e \in cache : Stale(e) => e \in Listed(lastList'))]_vars

\* a get found the row of an identifier stale, and a later listing returned it
C27_Witness ==
    /\ lastGet.valid /\ lastGet.found /\ ~lastGet.hit
    /\ lastList.valid /\ lastList.limit >= Cardinality(cache)
    /\ \E e \in Listed(lastList) : e.patent_number = lastGet.id /\ e \in cache

\* C28: a put is an upsert by patent number: an existing row gets the
\* record's fields, last_fetched = now and its counter plus one; a missing
\* row is created with counter 1; the rows of other numbers are unchanged.
C28_PutUpserts ==
    [][\A id \in Ids : PutStep(id) =>
          LET d == lastPut'.data
              old == rows_for(cache, id)
              new == rows_for(cache', id)
          IN /\ d["patent"] = id
             /\ Cardinality(new) = 1
             /\ \A e \in new :
                   /\ e.status = d["status"] /\ e.expiry_date = d["expiry_date"]
                   /\ e.jurisdictions = d["jurisdictions"]
                   /\ e.lapse_reason = d["lapse_reason"] /\ e.source = d["source"]
                   /\ e.last_fetched = now
                   /\ IF old = {} THEN e.fetch_count = 1
                      ELSE \A o \in old : e.fetch_count = o.fetch_count + 1
             /\ cache' \ new = cache \ old]_vars

\* a row was overwritten by a second put while another number has a row
C28_Witness ==
    /\ lastPut.valid /\ lastPut.data["patent"] = EP0683520
    /\ tally[EP0683520].puts >= 2
    /\ \E e \in rows_for(cache, EP0683520) : e.fetch_count >= 2
    /\ rows_for(cache, US9999999) # {}

\* C29: a listing of the stale rows has at most limit rows, all of them stale
\* rows of the table, none twice, in non-increasing order of the counter; it
\* is cut only by the limit, and no stale row left out has a higher counter
\* than a listed one.
C29_ListStale ==
    [][ListStep =>
          LET l == lastList'
              stale == {e \in cache : Stale(e)}
          IN /\ Len(l.rows) = Min(l.limit, Cardinality(stale))
             /\ Listed(l) \subseteq stale
             /\ Cardinality(Listed(l)) = Len(l.rows)
             /\ \A i, j \in DOMAIN l.rows :
                   i < j => l.rows[i].fetch_count >= l.rows[j].fetch_count
             /\ \A e \in stale \ Listed(l) :
                   \A i \in DOMAIN l.rows : e.fetch_count <= l.rows[i].fetch_count]_vars

\* of two stale rows the listing with limit 1 returned the more popular one
C29_Witness ==
    /\ lastList.valid /\ lastList.limit = 1 /\ Len(lastList.rows) = 1
    /\ lastList.rows[1] \in cache
    /\ \E e \in cache : /\ Stale(e) /\ e \notin Listed(lastList)
                        /\ e.fetch_count < lastList.rows[1].fetch_count

(***************************************************************************)
(* What a quota check reports and what it leaves (SpecQuota).              *)
(***************************************************************************)
\* the limit of a tier label in the limiter lim
AppliedLimit(lim, tier) ==
    IF lim = "RateLimiter" /\ lower(tier) = "enterprise" THEN ENTERPRISE_LIMIT
    ELSE FreeBasicPro(tier)

\* the last call of the mounted limiter and the counter of its key
LastCall == IF limiter = "RateLimiter" THEN rlLast ELSE advLast

LastCount == IF limiter = "RateLimiter" THEN usage[rlLast.key].count
             ELSE requests[advLast.key].count

LastReset == IF limiter = "RateLimiter" THEN usage[rlLast.key].reset_date
             ELSE requests[advLast.key].reset_at

\* the count the limit test of the last call compared with the limit
CountTested(l) == IF l.rolled THEN 0 ELSE l.count_before

\* C33: an admitted call reports remaining = limit - count after its own
\* increment, a rejected call remaining = 0, and both report the limit of the
\* tier and the reset time of the current window.
C33_Reports ==
    LastCall.valid =>
        /\ LastCall.allowed => /\ LastCall.remaining = LastCall.limit - LastCount
                               /\ 0 <= LastCall.remaining
                               /\ LastCall.remaining < LastCall.limit
        /\ ~LastCall.allowed => LastCall.remaining = 0
        /\ LastCall.limit = AppliedLimit(limiter, LastCall.tier)
        /\ LastCall.reset = LastReset

\* C35: a rejected call that did not start a new window leaves the count and
\* the reset time of its key as they were.
C35_RejectionFree ==
    (LastCall.valid /\ ~LastCall.allowed /\ ~LastCall.rolled) =>
        /\ LastCount = LastCall.count_before
        /\ LastReset = LastCall.reset_before

\* a call was rejected inside a window that an earlier call had filled
C35_Witness ==
    /\ LastCall.valid /\ ~LastCall.allowed /\ ~LastCall.rolled
    /\ LastCall.count_before = LastCall.limit
    /\ LastCall.count_before >= 1
    /\ LastCall.reset_before # NoDate

\* C39: a call reads and writes the counter of its own key only: the count
\* and the reset time of every other key are unchanged, and a call is
\* rejected only on the count of its own key.
C39_OtherKeysUntouched ==
    [][/\ \A k \in RLKeys : usage'[k] # usage[k] =>
             (calls' = calls + 1 /\ rlLast'.key = k /\ rlLast'.count_before = usage[k].count)
       /\ \A k \in AdvKeys : requests'[k] # requests[k] =>
             (calls' = calls + 1 /\ advLast'.key = k /\ advLast'.count_before = requests[k].count)
       /\ (calls' = calls + 1 /\ LastCall'.valid /\ ~LastCall'.allowed)
             => CountTested(LastCall') >= LastCall'.limit]_vars

\* a key was admitted while another key of the same tier had used up its quota
C39_Witness ==
    /\ limiter = "RateLimiter"
    /\ rlLast.valid /\ rlLast.allowed
    /\ \E k \in RLKeys : /\ k # rlLast.key
                         /\ rlWin[k].calls > rlWin[k].admitted
                         /\ usage[k].count = rate_limit_free
                         /\ rlLast.limit = rate_limit_free

\* C40: a key has one counter whatever the tier labels of its calls, and a
\* call is admitted iff that count is below the limit of the tier the call
\* itself names.
C40_LimitOfTheCall ==
    LastCall.valid =>
        (LastCall.allowed <=> CountTested(LastCall) < AppliedLimit(limiter, LastCall.tier))

\* a key rejected at the free limit was admitted on its next call, of the
\* same window, with the basic tier
C40_Witness ==
    /\ limiter = "RateLimiter"
    /\ rlLast.valid /\ rlLast.allowed /\ ~rlLast.rolled
    /\ rlLast.tier = "basic"
    /\ rlLast.count_before = rate_limit_free
    /\ rlWin[rlLast.key].calls = 3 /\ rlWin[rlLast.key].admitted = 2

(***************************************************************************)
(* The quota of a request and its outcome (Spec).                          *)
(***************************************************************************)
\* the step is the quota check of request r
QuotaStep(r) == req[r].pc = "new" /\ req'[r].pc # "new"

\* the count a check at this moment starts from
CountBase(k) == IF should_reset(usage[k].reset_date) THEN 0 ELSE usage[k].count

\* C36: the quota check of an admitted request adds exactly one to the count
\* of one key, and no later step of any request (a 400, a 404, a 500 or a
\* 200) changes a count: the unit is never given back.
C36_OneUnitKept ==
    [][/\ \A r \in Reqs : (QuotaStep(r) /\ req'[r].quota = "allowed") =>
             \E k \in RLKeys : /\ usage'[k].count = CountBase(k) + 1
                               /\ \A j \in RLKeys \ {k} : usage'[j] = usage[j]
       /\ (\A r \in Reqs : ~QuotaStep(r)) => usage' = usage]_vars

\* one admitted request ended in 400 and another in 404 or 500, and the
\* counts of both callers are still 1
C36_Witness ==
    /\ \E r, q \in Reqs :
          /\ req[r].quota = "allowed" /\ req[r].pc = "done" /\ req[r].http = 400
          /\ req[q].quota = "allowed" /\ req[q].pc = "done" /\ req[q].http \in {404, 500}
    /\ \A k \in RLKeys : usage[k].count = 1

(***************************************************************************)
(* Stale rows and the resolver (SpecResolver).                             *)
(***************************************************************************)
\* the step is the cache lookup of the resolution r, and it did not raise
LookupStep(r) == req[r].pc = "new" /\ req'[r].pc # "new" /\ ~req'[r].db_failed

\* the provider call of r returns without a record
ReturnedNothing(r) == req[r].pc = "fetching" /\ req'[r].pc = "done" /\ ~req'[r].fetched

StaleRows(id) == {e \in rows_for(cache, id) : Stale(e)}

\* C37: a resolution that finds a stale row does not answer from it, and when
\* its adapter then fails or finds nothing it ends with NotFound; neither
\* step changes the row.
C37_StaleNotServed ==
    [][\A r \in Reqs :
          /\ (LookupStep(r) /\ StaleRows(req'[r].patent) # {}) =>
                /\ req'[r].result # "hit" /\ lastHit' = lastHit
                /\ cache' = cache
          /\ ReturnedNothing(r) =>
                /\ req'[r].result = "NotFound"
                /\ cache' = cache]_vars

\* a resolution that found a stale row ended with NotFound after its adapter
\* failed, and the row is as it was stored
C37_Witness ==
    \E r \in Reqs :
        /\ req[r].pc = "done" /\ req[r].fetches = 1 /\ req[r].result = "NotFound"
        /\ req[r].stale
        /\ \E e \in StaleRows(req[r].patent) : e.fetch_count = 1 /\ e.last_fetched = 0

\* C38: when a resolution found a stale row and its adapter succeeds, the row
\* is refreshed in place (one row, the fetched source, last_fetched = now,
\* counter plus one) and the resolution returns the record, so that the next
\* lookup within the TTL can be a hit.
C38_StaleRefreshed ==
    [][\A r \in Reqs :
          (ReturnedFetched(r) /\ req[r].stale /\ rows_for(cache, req[r].patent) # {}) =>
              /\ req'[r].result = "fresh"
              /\ Cardinality(rows_for(cache', req[r].patent)) = 1
              /\ \A e \in rows_for(cache', req[r].patent) :
                    /\ e.last_fetched = now
                    /\ e.source = req[r].adapter
                    /\ \A o \in rows_for(cache, req[r].patent) :
                          e.fetch_count = o.fetch_count + 1]_vars

(***************************************************************************)
(* The popularity counter under concurrent requests (Spec).                *)
(***************************************************************************)
\* the requests answered from the row of id
Hits(id) == {r \in Reqs : req[r].result = "hit" /\ req[r].patent = id}

\* C31: whatever the order in which the lookups and the puts of concurrent
\* requests on one patent number are made, the counter of its row never
\* decreases and counts every hit and every put: it is the number of puts
\* that stored a record plus the number of requests answered from the row.
C31_NoLostIncrement ==
    [][\A id \in Ids :
          /\ \A o \in rows_for(cache, id) :
                \E e \in rows_for(cache', id) : e.fetch_count >= o.fetch_count
          /\ \A e \in rows_for(cache', id) :
                e.fetch_count = tally'[id].puts + Cardinality(Hits(id)')]_vars

\* a put made while one request was waiting for its provider was followed by
\* the hit of a second request, and both are counted
C31_Witness ==
    \E r, q \in Reqs :
        /\ r # q
        /\ req[r].pc = "fetching" /\ req[r].patent = EP0683520
        /\ q \in Hits(EP0683520)
        /\ tally[EP0683520].puts = 1
        /\ \E e \in rows_for(cache, EP0683520) : e.fetch_count = 2

(***************************************************************************)
(* Termination of a request (SpecLive).                                    *)
(***************************************************************************)
\* C32: a request that has passed the quota check reaches its end (a record,
\* NotFound, a validation error or a failure), and it calls a provider at
\* most once on its way: there is no retry.
C32_Terminates ==
    \A r \in Reqs :
        /\ [](req[r].fetches <= 1)
        /\ (req[r].pc \in {"admitted", "fetching"}) ~> (req[r].pc = "done")

\* a request that waited for its provider has ended with NotFound
C32_Witness ==
    \E r \in Reqs : /\ req[r].pc = "done" /\ req[r].fetches = 1
                    /\ req[r].result = "NotFound" /\ req[r].http = 404

(***************************************************************************)
(* The patent numbers the resolver stores under (SpecResolver).            *)
(***************************************************************************)
\* upper case, without a space, with the prefix EP or US
Canonical(id) ==
    /\ upper(id) = id
    /\ \A i \in DOMAIN id : id[i] # " "
    /\ valid_prefix(id)

\* C34: whatever raw input the resolver is called with, the patent number it
\* hands to save_patent_to_cache, and every patent number of a row of the
\* table, is upper case, has no space and begins with EP or US.
C34_CanonicalKeys ==
    /\ \A r \in Reqs : req[r].puts > 0 => Canonical(req[r].patent)
    /\ \A e \in cache : Canonical(e.patent_number)

\* the resolver, called with " us 9999999" and a trailing tab, went to store
\* under US9999999 while the table has a row
C34_Witness ==
    /\ \E r \in Reqs : req[r].puts = 1 /\ req[r].patent = US9999999
    /\ cache # {}

====
